---- MODULE Spec2Model ----
(***************************************************************************)
(* ETF holdings analysis (HHI, period P&L / top-50% contributors, turnover *)
(* log, weight-change decomposition) as a state machine.                   *)
(*                                                                         *)
(* A table is a sequence of rows; a row is a record with the fields Date,  *)
(* Ticker, Position, Stock_Price, Weight and ETF_Market_Value.             *)
(*   - Date is a timestamp counted in ticks, TicksPerDay ticks per         *)
(*     calendar day; a "mm/dd/YYYY" string is modelled by the calendar day *)
(*     number it denotes.                                                  *)
(*   - Weight is a fixed-point number counted in units of 1/WeightOne.     *)
(*   - The quotients of the weight decomposition are exact rationals       *)
(*     [n, d] in lowest terms with d > 0.                                  *)
(*   - An optional argument is <<>> (None) or <<v>>.                       *)
(*   - The iteration order of a Python set of strings is any enumeration   *)
(*     of the set.                                                         *)
(***************************************************************************)
EXTENDS Integers, Sequences, FiniteSets, TLC

\* ------------------------------------------------------------------ bounds

MaxRows == 3

TicksPerDay == 2

PercentDivisor == 100

WeightOne == 10 * PercentDivisor

\* ------------------------------------------------------------- generalities

None == << >>

Some(v) == << v >>

Range(s) == { s[k] : k \in DOMAIN s }

\* every enumeration of the finite set S without repetition
Orders(S) == { s \in [1..Cardinality(S) -> S] : Range(s) = S }

Abs(x) == IF x < 0 THEN -x ELSE x

RECURSIVE Gcd(_, _)
Gcd(a, b) == IF b = 0 THEN a ELSE Gcd(b, a % b)

\* exact rationals
Rat(n, d) ==
  LET s == IF d < 0 THEN -1 ELSE 1
      g == Gcd(Abs(n), Abs(d))
  IN  [n |-> (s * n) \div g, d |-> (s * d) \div g]

RatInt(k) == [n |-> k, d |-> 1]

RatAdd(a, b) == Rat(a.n * b.d + b.n * a.d, a.d * b.d)

RatSub(a, b) == Rat(a.n * b.d - b.n * a.d, a.d * b.d)

\* ------------------------------------------------------------------- tables

cash_funds == {"XX", "MVRXX", "DGCXX", "FEDXX"}

Row(d, t, pos, price, w, mv) ==
  [Date |-> d, Ticker |-> t, Position |-> pos, Stock_Price |-> price,
   Weight |-> w, ETF_Market_Value |-> mv]

\* pd.to_datetime of a calendar day: its midnight
to_datetime(day) == day * TicksPerDay

\* Timestamp.strftime('%m/%d/%Y'): the calendar day, the time of day dropped
strftime(ts) == ts \div TicksPerDay

\* df[mask]: the rows satisfying the mask, in the table's order
RECURSIVE Mask(_, _)
Mask(tbl, keep) ==
  IF tbl = << >> THEN << >>
  ELSE IF Head(tbl) \in keep THEN << Head(tbl) >> \o Mask(Tail(tbl), keep)
       ELSE Mask(Tail(tbl), keep)

OnDate(tbl, d) == Mask(tbl, { r \in Range(tbl) : r.Date = d })

OfTicker(tbl, t) == Mask(tbl, { r \in Range(tbl) : r.Ticker = t })

NonCash(tbl) == Mask(tbl, { r \in Range(tbl) : r.Ticker \notin cash_funds })

\* insertion of row r after every row whose date is not later
RECURSIVE InsertByDate(_, _)
InsertByDate(sorted, r) ==
  IF sorted = << >> THEN << r >>
  ELSE IF Head(sorted).Date <= r.Date
       THEN << Head(sorted) >> \o InsertByDate(Tail(sorted), r)
       ELSE << r >> \o sorted

\* df.sort_values('Date'): ascending dates, the rows of one date in the order
\* they had
RECURSIVE sort_values(_)
sort_values(tbl) ==
  IF tbl = << >> THEN << >>
  ELSE InsertByDate(sort_values(SubSeq(tbl, 1, Len(tbl) - 1)), tbl[Len(tbl)])

\* sorted(S) for a finite set of integers
RECURSIVE sorted(_)
sorted(S) ==
  IF S = {} THEN << >>
  ELSE LET m == CHOOSE x \in S : \A y \in S : x <= y
       IN  << m >> \o sorted(S \ {m})

Tickers(tbl) == { r.Ticker : r \in Range(tbl) }

Dates(tbl) == { r.Date : r \in Range(tbl) }

\* ------------------------------------------------------------ data_loader.py

MaxWeight(tbl) == CHOOSE w \in { r.Weight : r \in Range(tbl) } :
                    \A r \in Range(tbl) : r.Weight <= w

\* the division applied row by row, to the weights above 1 only
DivideWeights_per_row(tbl) ==
  [k \in DOMAIN tbl |->
     [tbl[k] EXCEPT !.Weight = IF @ > WeightOne THEN @ \div PercentDivisor ELSE @]]

\* etf_data['Weight'] / 100
DivideWeights(tbl) ==
  [k \in DOMAIN tbl |-> [tbl[k] EXCEPT !.Weight = @ \div PercentDivisor]]

\* the columns load_etf_holdings asks for
required_cols ==
  {"Date", "Bloomberg Name", "Ticker", "Position", "Stock_Price", "Weight"}

\* the columns of a complete sheet: the required ones and the fund total value
all_cols == required_cols \cup {"ETF Market Value"}

\* the source of one fund: no file, a file read_excel cannot read, or a sheet
\* with its columns and rows
Source(file, columns, rows) == [file |-> file, columns |-> columns, rows |-> rows]

Sheet(tbl) == Source("sheet", all_cols, tbl)

\* the exception load_etf_holdings raises on a source, None when it returns
load_error(source) ==
  IF source.file = "absent" THEN Some("FileNotFoundError")
  ELSE IF source.file = "corrupt" THEN Some("ReadError")
  ELSE IF "Date" \notin source.columns THEN Some("KeyError")
  ELSE IF required_cols \ source.columns # {} THEN Some("ValueError")
  ELSE None

\* the table load_etf_holdings returns for the sheet tbl
load_etf_holdings(tbl) ==
  LET rescaled == IF tbl # << >> /\ MaxWeight(tbl) > WeightOne
                  THEN DivideWeights(tbl)
                  ELSE tbl
  IN  sort_values(rescaled)

\* the range masks with the end date left out: Date >= start, Date < end
filter_by_range_before_end(tbl, s, e) ==
  LET from == IF s # None
              THEN Mask(tbl, { r \in Range(tbl) : r.Date >= to_datetime(s[1]) })
              ELSE tbl
  IN  IF e # None
      THEN Mask(from, { r \in Range(from) : r.Date < to_datetime(e[1]) })
      ELSE from

\* the two range masks the engines apply: Date >= start, Date <= end
filter_by_range(tbl, s, e) ==
  LET from == IF s # None
              THEN Mask(tbl, { r \in Range(tbl) : r.Date >= to_datetime(s[1]) })
              ELSE tbl
  IN  IF e # None
      THEN Mask(from, { r \in Range(from) : r.Date <= to_datetime(e[1]) })
      ELSE from

\* ---------------------------------------------------------------- metrics.py

RECURSIVE SumSquares(_)
SumSquares(tbl) ==
  IF tbl = << >> THEN 0
  ELSE Head(tbl).Weight * Head(tbl).Weight + SumSquares(Tail(tbl))

\* the HHI over all rows, the cash rows too
calculate_holdings_hhi_with_cash(holdings_data) ==
  IF Len(holdings_data) = 0 THEN 0 ELSE SumSquares(holdings_data)

\* HHI in units of 1/WeightOne^2
calculate_holdings_hhi(holdings_data) ==
  LET filtered_data == NonCash(holdings_data)
  IN  IF Len(filtered_data) = 0 THEN 0 ELSE SumSquares(filtered_data)

\* the record computed from the position at the end of the period
PnlRecord_end_position(ticker, start_rows, end_rows) ==
  LET start_row == start_rows[1]
      end_row   == end_rows[1]
  IN  [ticker         |-> ticker,
       pnl            |-> end_row.Position
                            * (end_row.Stock_Price - start_row.Stock_Price),
       start_price    |-> start_row.Stock_Price,
       end_price      |-> end_row.Stock_Price,
       start_position |-> start_row.Position,
       end_position   |-> end_row.Position,
       weight         |-> end_row.Weight]

\* the record of one ticker, from the first row of each snapshot
PnlRecord(ticker, start_rows, end_rows) ==
  LET start_row == start_rows[1]
      end_row   == end_rows[1]
  IN  [ticker         |-> ticker,
       pnl            |-> start_row.Position
                            * (end_row.Stock_Price - start_row.Stock_Price),
       start_price    |-> start_row.Stock_Price,
       end_price      |-> end_row.Stock_Price,
       start_position |-> start_row.Position,
       end_position   |-> end_row.Position,
       weight         |-> end_row.Weight]

\* the test without the skip of the cash funds
PnlMatched_with_cash(ticker, holdings_start, holdings_end) ==
  /\ Len(OfTicker(holdings_start, ticker)) > 0
  /\ Len(OfTicker(holdings_end, ticker)) > 0

\* whether a ticker of all_tickers gets a record
PnlMatched(ticker, holdings_start, holdings_end) ==
  /\ ticker \notin cash_funds
  /\ Len(OfTicker(holdings_start, ticker)) > 0
  /\ Len(OfTicker(holdings_end, ticker)) > 0

\* a zero record for every non-cash ticker missing from one snapshot
RECURSIVE calculate_pnl_zero_filled(_, _, _)
calculate_pnl_zero_filled(holdings_start, holdings_end, order) ==
  IF order = << >> THEN << >>
  ELSE LET ticker == Head(order)
           rest   == calculate_pnl_zero_filled(holdings_start, holdings_end,
                                               Tail(order))
       IN  IF ticker \in cash_funds THEN rest
           ELSE IF PnlMatched(ticker, holdings_start, holdings_end)
           THEN << PnlRecord(ticker, OfTicker(holdings_start, ticker),
                             OfTicker(holdings_end, ticker)) >> \o rest
           ELSE << [ticker |-> ticker, pnl |-> 0, start_price |-> 0,
                    end_price |-> 0, start_position |-> 0, end_position |-> 0,
                    weight |-> 0] >> \o rest

\* pnl_data, a dict in insertion order, for all_tickers iterated in `order`
RECURSIVE calculate_pnl_for_period(_, _, _)
calculate_pnl_for_period(holdings_start, holdings_end, order) ==
  IF order = << >> THEN << >>
  ELSE LET ticker == Head(order)
           rest   == calculate_pnl_for_period(holdings_start, holdings_end,
                                              Tail(order))
       IN  IF PnlMatched(ticker, holdings_start, holdings_end)
           THEN << PnlRecord(ticker, OfTicker(holdings_start, ticker),
                             OfTicker(holdings_end, ticker)) >> \o rest
           ELSE rest

all_tickers(holdings_start, holdings_end) ==
  Tickers(holdings_start) \cup Tickers(holdings_end)

\* ------------------------------------------------------------------- main.py

\* etf_data of calculate_daily_hhi_and_contributors after its filter and sort
daily_etf_data(tbl, s, e) == sort_values(filter_by_range(tbl, s, e))

daily_unique_dates(tbl, s, e) == sorted(Dates(daily_etf_data(tbl, s, e)))

holdings_count(daily) == Len(NonCash(daily))

\* prev_date = unique_dates[i-1] (the Python index i is position i + 1 here)
daily_prev_date(unique_dates, k) == unique_dates[k]

\* positive_pnl: the entries with pnl > 0, in pnl_data's order
positive_pnl(pnl) == SelectSeq(pnl, LAMBDA r : r.pnl > 0)

\* sorted(..., key=pnl, reverse=True): descending, equal keys in their order
RECURSIVE sorted_positive(_)
sorted_positive(items) ==
  IF items = << >> THEN << >>
  ELSE LET k == CHOOSE j \in DOMAIN items :
                  /\ \A m \in DOMAIN items : items[m].pnl <= items[j].pnl
                  /\ \A m \in 1..(j - 1) : items[m].pnl < items[j].pnl
       IN  << items[k] >>
             \o sorted_positive(SubSeq(items, 1, k - 1)
                                  \o SubSeq(items, k + 1, Len(items)))

RECURSIVE SumPnl(_)
SumPnl(items) == IF items = << >> THEN 0 ELSE Head(items).pnl + SumPnl(Tail(items))

\* the loop stopping only once the running sum exceeds the half
RECURSIVE top_50pct_loop_strict(_, _, _)
top_50pct_loop_strict(items, cumulative_pnl, total_positive_pnl) ==
  IF items = << >> THEN << >>
  ELSE LET cum == cumulative_pnl + Head(items).pnl
       IN  IF 2 * cum > total_positive_pnl
           THEN << Head(items).ticker >>
           ELSE << Head(items).ticker >>
                  \o top_50pct_loop_strict(Tail(items), cum, total_positive_pnl)

\* the loop of main.py:100-104; cumulative >= total * 0.5 as 2*cumulative >= total
RECURSIVE top_50pct_loop(_, _, _)
top_50pct_loop(items, cumulative_pnl, total_positive_pnl) ==
  IF items = << >> THEN << >>
  ELSE LET cum == cumulative_pnl + Head(items).pnl
       IN  IF 2 * cum >= total_positive_pnl
           THEN << Head(items).ticker >>
           ELSE << Head(items).ticker >>
                  \o top_50pct_loop(Tail(items), cum, total_positive_pnl)

\* the list taken over every record, the losses too
top_50pct_all_records(pnl) ==
  IF pnl = << >> THEN << >>
  ELSE top_50pct_loop(sorted_positive(pnl), 0, SumPnl(pnl))

\* top_50pct_tickers for pnl_data (empty when pnl_data or positive_pnl is empty)
top_50pct(pnl) ==
  IF pnl = << >> THEN << >>
  ELSE IF positive_pnl(pnl) = << >> THEN << >>
       ELSE top_50pct_loop(sorted_positive(positive_pnl(pnl)), 0,
                           SumPnl(sorted_positive(positive_pnl(pnl))))

\* one row of the daily series
daily_row(current, daily, tickers) ==
  [Date                     |-> strftime(current),
   HHI                      |-> calculate_holdings_hhi(daily),
   Holdings_Count           |-> holdings_count(daily),
   Top_50pct_Profit_Count   |-> Len(tickers),
   Top_50pct_Profit_Tickers |-> tickers]

\* get_date_range: the exception of NaT.strftime on a table without rows, None
\* when the two dates are formatted
get_date_range_error(tbl) == IF tbl = << >> THEN Some("ValueError") ELSE None

\* Series.unique(): the values in the order of their first appearance
RECURSIVE unique(_)
unique(s) ==
  IF s = << >> THEN << >>
  ELSE LET rest == unique(SubSeq(s, 1, Len(s) - 1))
       IN  IF s[Len(s)] \in Range(rest) THEN rest ELSE Append(rest, s[Len(s)])

\* the tickers of every event of the date, whatever its action
RECURSIVE tickers_with_any_action(_, _, _)
tickers_with_any_action(changes, date_dt, action) ==
  IF changes = << >> THEN << >>
  ELSE LET rest == tickers_with_any_action(Tail(changes), date_dt, action)
       IN  IF Head(changes).Date = date_dt
           THEN << Head(changes).Ticker >> \o rest
           ELSE rest

\* date_changes[date_changes['Action'] == action]['Ticker'].tolist()
RECURSIVE tickers_with(_, _, _)
tickers_with(changes, date_dt, action) ==
  IF changes = << >> THEN << >>
  ELSE LET rest == tickers_with(Tail(changes), date_dt, action)
       IN  IF Head(changes).Date = date_dt /\ Head(changes).Action = action
           THEN << Head(changes).Ticker >> \o rest
           ELSE rest

\* daily_changes: one row for every date string with an addition or a removal
RECURSIVE daily_changes_rows(_, _)
daily_changes_rows(date_strs, changes) ==
  IF date_strs = << >> THEN << >>
  ELSE LET date_str == Head(date_strs)
           date_dt  == to_datetime(date_str)
           added    == tickers_with(changes, date_dt, "Added")
           removed  == tickers_with(changes, date_dt, "Removed")
           rest     == daily_changes_rows(Tail(date_strs), changes)
       IN  IF added # << >> \/ removed # << >>
           THEN << [Date                 |-> date_str,
                    Stocks_Added         |-> added,
                    Stocks_Added_Count   |-> Len(added),
                    Stocks_Removed       |-> removed,
                    Stocks_Removed_Count |-> Len(removed)] >> \o rest
           ELSE rest

\* the KeyError of daily_analysis['Date'] or of changes_summary['Date'] when
\* the frame was built from an empty list and so has no column, else None
assembly_error(daily_analysis, changes_summary) ==
  IF daily_analysis = << >> THEN Some("KeyError")
  ELSE IF changes_summary = << >> THEN Some("KeyError")
  ELSE None

\* ------------------------------------------------------ portfolio_changes.py

\* the dates taken once the cash rows are gone
track_unique_dates_of_holdings(tbl, s, e) ==
  sorted(Dates(NonCash(sort_values(filter_by_range(tbl, s, e)))))

\* unique_dates of track_portfolio_changes: taken before the cash rows go
track_unique_dates(tbl, s, e) ==
  sorted(Dates(sort_values(filter_by_range(tbl, s, e))))

\* etf_data of track_portfolio_changes once the cash rows are dropped
track_etf_data(tbl, s, e) == NonCash(sort_values(filter_by_range(tbl, s, e)))

\* prev_date = unique_dates[i-1]
track_prev_date(unique_dates, k) == unique_dates[k]

tickers_on(tbl, d) == Tickers(OnDate(tbl, d))

\* every current ticker counted as added
added_of_all(prev, current) == current

\* current_tickers - prev_tickers
added_of(prev, current) == current \ prev

\* every previous ticker counted as removed
removed_of_all(prev, current) == prev

\* prev_tickers - current_tickers
removed_of(prev, current) == prev \ current

\* the events appended for the tickers iterated in `order`
events(d, action, order) ==
  [k \in DOMAIN order |-> [Date |-> d, Action |-> action, Ticker |-> order[k]]]

\* --------------------------------------------------------- weight_changes.py

weight_unique_dates(tbl, s, e) ==
  sorted(Dates(sort_values(filter_by_range(tbl, s, e))))

weight_etf_data(tbl, s, e) == NonCash(sort_values(filter_by_range(tbl, s, e)))

\* the calendar day before the current date
weight_prev_calendar_day(unique_dates, k) == unique_dates[k + 1] - TicksPerDay

\* prev_date = unique_dates[i-1]
weight_prev_date(unique_dates, k) == unique_dates[k]

\* the KeyError of prev_holdings['ETF Market Value'] when the previous snapshot
\* has rows and the sheet has no such column, else None
prev_total_error(prev, columns) ==
  IF Len(prev) > 0 /\ "ETF Market Value" \notin columns
  THEN Some("KeyError")
  ELSE None

\* prev_holdings['ETF Market Value'].iloc[0] if len(prev_holdings) > 0 else 0
prev_total_of(prev) == IF Len(prev) > 0 THEN prev[1].ETF_Market_Value ELSE 0

\* the first row of the ticker, or the initial values 0 when it has none
FirstOrZero(rows) ==
  IF Len(rows) > 0
  THEN [Weight |-> rows[1].Weight, Position |-> rows[1].Position,
        Stock_Price |-> rows[1].Stock_Price]
  ELSE [Weight |-> 0, Position |-> 0, Stock_Price |-> 0]

\* the position effect computed for every denominator but 0
from_position_nonzero(position_change, prev_price, total) ==
  IF total # 0 /\ prev_price > 0
  THEN Rat(position_change * prev_price, total)
  ELSE RatInt(0)

\* (position_change * prev_price) / prev_total_market_value, or 0
from_position(position_change, prev_price, total) ==
  IF total > 0 /\ prev_price > 0
  THEN Rat(position_change * prev_price, total)
  ELSE RatInt(0)

\* (price_change * prev_position) / prev_total_market_value, or 0
from_price(current_price, prev_price, prev_position, total) ==
  IF total > 0 /\ prev_position > 0
  THEN Rat((current_price - prev_price) * prev_position, total)
  ELSE RatInt(0)

\* the residual with the price effect left in it
residual_of_no_price(weight_change, wc_position, wc_price) ==
  RatSub(weight_change, wc_position)

\* weight_change - weight_change_from_position - weight_change_from_price
residual_of(weight_change, wc_position, wc_price) ==
  RatSub(RatSub(weight_change, wc_position), wc_price)

\* the dict appended to results for one ticker
weight_record(current, ticker, p, c, total) ==
  LET weight_change   == Rat(c.Weight - p.Weight, WeightOne)
      position_change == c.Position - p.Position
      wc_position     == from_position(position_change, p.Stock_Price, total)
      wc_price        == from_price(c.Stock_Price, p.Stock_Price, p.Position, total)
  IN  [Date             |-> strftime(current),
       Ticker           |-> ticker,
       Prev_Weight      |-> Rat(p.Weight, WeightOne),
       Current_Weight   |-> Rat(c.Weight, WeightOne),
       Weight_Change    |-> weight_change,
       Prev_Position    |-> p.Position,
       Current_Position |-> c.Position,
       Position_Change  |-> position_change,
       Prev_Price       |-> p.Stock_Price,
       Current_Price    |-> c.Stock_Price,
       Price_Change     |-> IF p.Stock_Price > 0
                            THEN c.Stock_Price - p.Stock_Price ELSE 0,
       Weight_Change_from_Position |-> wc_position,
       Weight_Change_from_Price    |-> wc_price,
       Residual         |-> residual_of(weight_change, wc_position, wc_price)]

\* a record for every non-cash ticker, whatever its weights
RECURSIVE weight_records_unfiltered(_, _, _, _, _)
weight_records_unfiltered(current, prev, cur, total, order) ==
  IF order = << >> THEN << >>
  ELSE LET ticker == Head(order)
           p      == FirstOrZero(OfTicker(prev, ticker))
           c      == FirstOrZero(OfTicker(cur, ticker))
           rest   == weight_records_unfiltered(current, prev, cur, total,
                                               Tail(order))
       IN  IF ticker \in cash_funds THEN rest
           ELSE << weight_record(current, ticker, p, c, total) >> \o rest

\* the records of one date pair, for all_tickers iterated in `order`
RECURSIVE weight_records(_, _, _, _, _)
weight_records(current, prev, cur, total, order) ==
  IF order = << >> THEN << >>
  ELSE LET ticker == Head(order)
           p      == FirstOrZero(OfTicker(prev, ticker))
           c      == FirstOrZero(OfTicker(cur, ticker))
           rest   == weight_records(current, prev, cur, total, Tail(order))
       IN  IF ticker \in cash_funds THEN rest
           ELSE IF p.Weight > 0 \/ c.Weight > 0
                THEN << weight_record(current, ticker, p, c, total) >> \o rest
                ELSE rest

\* a < b for exact rationals
RatLess(a, b) == a.n * b.d < b.n * a.d

RatAbs(a) == [n |-> Abs(a.n), d |-> a.d]

\* the 0.001 a weight change has to exceed to count as significant
significant == Rat(1, 1000)

\* the 0.0001 of Stocks_with_Changes
changed == Rat(1, 10 * 1000)

\* the rows of weight_changes_df of one date
date_data_of(df, date) == SelectSeq(df, LAMBDA r : r.Date = date)

\* the increases taken without the threshold
all_weight_increases(date_data) ==
  SelectSeq(date_data, LAMBDA r : RatLess(RatInt(0), r.Weight_Change))

\* date_data[date_data['Weight_Change'] > 0.001]
weight_increases(date_data) ==
  SelectSeq(date_data, LAMBDA r : RatLess(significant, r.Weight_Change))

\* date_data[date_data['Weight_Change'] < -0.001]
weight_decreases(date_data) ==
  SelectSeq(date_data,
            LAMBDA r : RatLess(r.Weight_Change, RatSub(RatInt(0), significant)))

\* DataFrame.nlargest(n, 'Weight_Change'): the n rows of largest change in
\* descending order, of equal changes the first occurrences, in their order
RECURSIVE nlargest(_, _)
nlargest(n, rows) ==
  IF n = 0 \/ rows = << >> THEN << >>
  ELSE LET k == CHOOSE j \in DOMAIN rows :
                  /\ \A m \in DOMAIN rows :
                       ~RatLess(rows[j].Weight_Change, rows[m].Weight_Change)
                  /\ \A m \in 1..(j - 1) :
                       RatLess(rows[m].Weight_Change, rows[j].Weight_Change)
       IN  << rows[k] >>
             \o nlargest(n - 1, SubSeq(rows, 1, k - 1)
                                  \o SubSeq(rows, k + 1, Len(rows)))

\* DataFrame.nsmallest(n, 'Weight_Change'), likewise in ascending order
RECURSIVE nsmallest(_, _)
nsmallest(n, rows) ==
  IF n = 0 \/ rows = << >> THEN << >>
  ELSE LET k == CHOOSE j \in DOMAIN rows :
                  /\ \A m \in DOMAIN rows :
                       ~RatLess(rows[m].Weight_Change, rows[j].Weight_Change)
                  /\ \A m \in 1..(j - 1) :
                       RatLess(rows[j].Weight_Change, rows[m].Weight_Change)
       IN  << rows[k] >>
             \o nsmallest(n - 1, SubSeq(rows, 1, k - 1)
                                   \o SubSeq(rows, k + 1, Len(rows)))

\* the "TICKER (+0.0012)" entries of a top list: ticker and change
top_entries(rows) ==
  [k \in DOMAIN rows |->
     [Ticker |-> rows[k].Ticker, Weight_Change |-> rows[k].Weight_Change]]

\* Series.abs().sum()
RECURSIVE abs_sum(_)
abs_sum(values) ==
  IF values = << >> THEN RatInt(0)
  ELSE RatAdd(RatAbs(Head(values)), abs_sum(Tail(values)))

\* the dict appended to daily_summary for one date
summary_row(date, date_data) ==
  [Date                  |-> date,
   Stocks_with_Changes   |->
     Len(SelectSeq(date_data,
                   LAMBDA r : RatLess(changed, RatAbs(r.Weight_Change)))),
   Total_Position_Impact |->
     abs_sum([k \in DOMAIN date_data |-> date_data[k].Weight_Change_from_Position]),
   Total_Price_Impact    |->
     abs_sum([k \in DOMAIN date_data |-> date_data[k].Weight_Change_from_Price]),
   Top_Weight_Increases  |-> top_entries(nlargest(3, weight_increases(date_data))),
   Top_Weight_Decreases  |-> top_entries(nsmallest(3, weight_decreases(date_data))),
   Stocks_Added          |->
     Len(SelectSeq(date_data, LAMBDA r : r.Prev_Weight = RatInt(0))),
   Stocks_Removed        |->
     Len(SelectSeq(date_data, LAMBDA r : r.Current_Weight = RatInt(0)))]

\* the frame returned for weight_changes_df, one row per date of it
create_daily_weight_change_summary(weight_changes_df) ==
  IF weight_changes_df = << >> THEN << >>
  ELSE LET dates == unique([k \in DOMAIN weight_changes_df |->
                              weight_changes_df[k].Date])
       IN  [k \in DOMAIN dates |->
              summary_row(dates[k], date_data_of(weight_changes_df, dates[k]))]

\* -------------------------------------------------------------------- state

VARIABLES
  sources,                  \* the source of every fund of ETFS_TO_ANALYZE
  etf,                      \* the fund main's loop is at (an index into sources)
  start_date, end_date,     \* the analysis period, each None or Some(day)
  errors,                   \* the load errors analyze_etf printed
  reports,                  \* the funds whose report was exported
  raised,                   \* the exception that left main and the step that
                            \* raised it, None when none did
  etf_data,                 \* the table load_etf_holdings returned
  pc,                       \* "load", "range", "daily", "track", "weights",
                            \* "assemble", "export", "next", "done", "raised"
  i,                        \* the index of the running loop over unique_dates
  current_date, prev_date,  \* the dates of the last iteration (None: not set)
  prev_holdings,            \* the previous-date snapshot the last iteration used
  current_holdings,         \* daily_holdings / current_holdings of that iteration
  pnl_data,                 \* the dict calculate_pnl_for_period returned
  results,                  \* the daily series
  prev_tickers, current_tickers, added_tickers, removed_tickers,
  changes_list,             \* the change log
  prev_total_market_value,  \* the denominator of the last weight iteration
  weight_results,           \* the weight-change records
  daily_changes,            \* the rows of Portfolio_Changes
  daily_summary             \* the rows create_daily_weight_change_summary returned

vars == << sources, etf, start_date, end_date, errors, reports, raised,
           etf_data, pc, i, current_date, prev_date,
           prev_holdings, current_holdings, pnl_data, results, prev_tickers,
           current_tickers, added_tickers, removed_tickers, changes_list,
           prev_total_market_value, weight_results, daily_changes,
           daily_summary >>

\* the sheet read by pd.read_excel for the fund being analysed
raw == sources[etf].rows

inputs == << sources, etf, start_date, end_date >>

main_locals == << errors, reports, raised, daily_changes, daily_summary >>

daily_locals == << pnl_data >>

track_locals == << prev_tickers, current_tickers, added_tickers, removed_tickers >>

weight_locals == << prev_total_market_value >>

\* the state before main analyses the first of the funds over the period s..e
StartBatch(funds, s, e) ==
  /\ sources = funds
  /\ etf = 1
  /\ start_date = s
  /\ end_date = e
  /\ errors = << >>
  /\ reports = << >>
  /\ raised = None
  /\ etf_data = << >>
  /\ pc = "load"
  /\ i = 0
  /\ current_date = None
  /\ prev_date = None
  /\ prev_holdings = << >>
  /\ current_holdings = << >>
  /\ pnl_data = << >>
  /\ results = << >>
  /\ prev_tickers = {}
  /\ current_tickers = {}
  /\ added_tickers = {}
  /\ removed_tickers = {}
  /\ changes_list = << >>
  /\ prev_total_market_value = 0
  /\ weight_results = << >>
  /\ daily_changes = << >>
  /\ daily_summary = << >>

\* the state before load_etf_holdings is called on sheet tbl for period s..e
Start(tbl, s, e) == StartBatch(<< Sheet(tbl) >>, s, e)

\* the locals of analyze_etf and of the engines are gone
Cleared ==
  /\ etf_data' = << >>
  /\ i' = 0
  /\ current_date' = None
  /\ prev_date' = None
  /\ prev_holdings' = << >>
  /\ current_holdings' = << >>
  /\ pnl_data' = << >>
  /\ results' = << >>
  /\ prev_tickers' = {}
  /\ current_tickers' = {}
  /\ added_tickers' = {}
  /\ removed_tickers' = {}
  /\ changes_list' = << >>
  /\ prev_total_market_value' = 0
  /\ weight_results' = << >>
  /\ daily_changes' = << >>
  /\ daily_summary' = << >>

\* an exception nothing catches: it leaves analyze_etf and main, the run ends
Raise(exception) ==
  /\ raised' = Some([error |-> exception, at |-> pc])
  /\ pc' = "raised"
  /\ Cleared
  /\ UNCHANGED << inputs, errors, reports >>

\* ------------------------------------------------------------------ actions

\* analyze_etf: etf_data = load_etf_holdings(etf_name), an Exception printed
LoadHoldings ==
  /\ pc = "load"
  /\ IF load_error(sources[etf]) = None
     THEN /\ etf_data' = load_etf_holdings(raw)
          /\ pc' = "range"
          /\ UNCHANGED errors
     ELSE /\ etf_data' = << >>
          /\ pc' = "next"
          /\ errors' = Append(errors, [etf   |-> etf,
                                       error |-> load_error(sources[etf])[1]])
  /\ UNCHANGED << inputs, reports, raised, daily_changes, daily_summary, i,
                  current_date, prev_date, prev_holdings,
                  current_holdings, daily_locals, results, track_locals,
                  changes_list, weight_locals, weight_results >>

\* analyze_etf: data_start, data_end = get_date_range(etf_data)
GetDateRange ==
  /\ pc = "range"
  /\ IF get_date_range_error(etf_data) # None
     THEN Raise(get_date_range_error(etf_data)[1])
     ELSE /\ pc' = "daily"
          /\ UNCHANGED << inputs, main_locals, etf_data, i, current_date,
                          prev_date, prev_holdings, current_holdings,
                          daily_locals, results, track_locals, changes_list,
                          weight_locals, weight_results >>

\* one iteration of the loop of calculate_daily_hhi_and_contributors
DailyStep ==
  /\ pc = "daily"
  /\ LET data         == daily_etf_data(etf_data, start_date, end_date)
         unique_dates == daily_unique_dates(etf_data, start_date, end_date)
     IN  /\ i < Len(unique_dates)
         /\ LET current        == unique_dates[i + 1]
                daily_holdings == OnDate(data, current)
            IN  /\ current_date' = Some(current)
                /\ current_holdings' = daily_holdings
                /\ \/ /\ i = 0
                      /\ prev_date' = None
                      /\ prev_holdings' = << >>
                      /\ pnl_data' = << >>
                      /\ results' = Append(results,
                                           daily_row(current, daily_holdings, << >>))
                   \/ /\ i > 0
                      /\ LET previous == daily_prev_date(unique_dates, i)
                             prev     == OnDate(data, previous)
                         IN  /\ prev_date' = Some(previous)
                             /\ prev_holdings' = prev
                             /\ \E order \in Orders(all_tickers(prev, daily_holdings)) :
                                  LET pnl == calculate_pnl_for_period(
                                               prev, daily_holdings, order)
                                  IN  /\ pnl_data' = pnl
                                      /\ results' = Append(results,
                                           daily_row(current, daily_holdings,
                                                     top_50pct(pnl)))
  /\ i' = i + 1
  /\ UNCHANGED << inputs, main_locals, etf_data, pc, track_locals, changes_list,
                  weight_locals, weight_results >>

\* calculate_daily_hhi_and_contributors returns; track_portfolio_changes starts
DailyReturn ==
  /\ pc = "daily"
  /\ i = Len(daily_unique_dates(etf_data, start_date, end_date))
  /\ pc' = "track"
  /\ i' = 0
  /\ current_date' = None
  /\ prev_date' = None
  /\ prev_holdings' = << >>
  /\ current_holdings' = << >>
  /\ pnl_data' = << >>
  /\ UNCHANGED << inputs, main_locals, etf_data, results, track_locals,
                  changes_list, weight_locals, weight_results >>

\* one iteration of the loop of track_portfolio_changes
TrackStep ==
  /\ pc = "track"
  /\ LET data         == track_etf_data(etf_data, start_date, end_date)
         unique_dates == track_unique_dates(etf_data, start_date, end_date)
     IN  /\ i < Len(unique_dates)
         /\ LET current == unique_dates[i + 1]
                cur     == tickers_on(data, current)
            IN  /\ current_date' = Some(current)
                /\ current_tickers' = cur
                /\ \/ /\ i = 0
                      /\ prev_date' = None
                      /\ prev_tickers' = {}
                      /\ added_tickers' = {}
                      /\ removed_tickers' = {}
                      /\ \E order \in Orders(cur) :
                           changes_list' = changes_list
                                             \o events(current, "Initial", order)
                   \/ /\ i > 0
                      /\ LET previous == track_prev_date(unique_dates, i)
                             prev     == tickers_on(data, previous)
                             added    == added_of(prev, cur)
                             removed  == removed_of(prev, cur)
                         IN  /\ prev_date' = Some(previous)
                             /\ prev_tickers' = prev
                             /\ added_tickers' = added
                             /\ removed_tickers' = removed
                             /\ \E oa \in Orders(added), orm \in Orders(removed) :
                                  changes_list' = changes_list
                                    \o events(current, "Added", oa)
                                    \o events(current, "Removed", orm)
  /\ i' = i + 1
  /\ UNCHANGED << inputs, main_locals, etf_data, pc, prev_holdings,
                  current_holdings, daily_locals, results, weight_locals,
                  weight_results >>

\* track_portfolio_changes returns; calculate_weight_changes starts at i = 1
TrackReturn ==
  /\ pc = "track"
  /\ i = Len(track_unique_dates(etf_data, start_date, end_date))
  /\ pc' = "weights"
  /\ i' = 1
  /\ current_date' = None
  /\ prev_date' = None
  /\ prev_tickers' = {}
  /\ current_tickers' = {}
  /\ added_tickers' = {}
  /\ removed_tickers' = {}
  /\ UNCHANGED << inputs, main_locals, etf_data, prev_holdings,
                  current_holdings, daily_locals, results, changes_list,
                  weight_locals, weight_results >>

\* one iteration of the loop over date pairs of calculate_weight_changes
WeightStep ==
  /\ pc = "weights"
  /\ LET data         == weight_etf_data(etf_data, start_date, end_date)
         unique_dates == weight_unique_dates(etf_data, start_date, end_date)
     IN  /\ i < Len(unique_dates)
         /\ LET current  == unique_dates[i + 1]
                previous == weight_prev_date(unique_dates, i)
                prev     == OnDate(data, previous)
                cur      == OnDate(data, current)
                total    == prev_total_of(prev)
                error    == prev_total_error(prev, sources[etf].columns)
            IN  IF error # None
                THEN Raise(error[1])
                ELSE /\ current_date' = Some(current)
                     /\ prev_date' = Some(previous)
                     /\ prev_holdings' = prev
                     /\ current_holdings' = cur
                     /\ prev_total_market_value' = total
                     /\ \E order \in Orders(all_tickers(prev, cur)) :
                          weight_results' = weight_results
                            \o weight_records(current, prev, cur, total, order)
                     /\ i' = i + 1
                     /\ UNCHANGED << inputs, main_locals, etf_data, pc,
                                     daily_locals, results, track_locals,
                                     changes_list >>

\* calculate_weight_changes returns; analyze_etf goes on to its daily_changes
WeightReturn ==
  /\ pc = "weights"
  /\ i >= Len(weight_unique_dates(etf_data, start_date, end_date))
  /\ pc' = "assemble"
  /\ i' = 0
  /\ current_date' = None
  /\ prev_date' = None
  /\ prev_holdings' = << >>
  /\ current_holdings' = << >>
  /\ prev_total_market_value' = 0
  /\ UNCHANGED << inputs, main_locals, etf_data, daily_locals, results,
                  track_locals, changes_list, weight_results >>

\* analyze_etf: the loop building daily_changes from the date strings of the
\* daily series and the change log
AssembleChanges ==
  /\ pc = "assemble"
  /\ IF assembly_error(results, changes_list) # None
     THEN Raise(assembly_error(results, changes_list)[1])
     ELSE /\ daily_changes' = daily_changes_rows(
                                unique([k \in DOMAIN results |-> results[k].Date]),
                                changes_list)
          /\ pc' = "export"
          /\ UNCHANGED << inputs, errors, reports, raised, daily_summary,
                          etf_data, i, current_date, prev_date, prev_holdings,
                          current_holdings, daily_locals, results, track_locals,
                          changes_list, weight_locals, weight_results >>

\* analyze_etf: the three sheets written, the summary printed, the call returns
ExportReport ==
  /\ pc = "export"
  /\ reports' = Append(reports, etf)
  /\ pc' = "next"
  /\ UNCHANGED << inputs, errors, raised, daily_changes, daily_summary,
                  etf_data, i, current_date, prev_date, prev_holdings,
                  current_holdings, daily_locals, results, track_locals,
                  changes_list, weight_locals, weight_results >>

\* main: the loop over ETFS_TO_ANALYZE goes to its next fund, or ends
NextFund ==
  /\ pc = "next"
  /\ IF etf < Len(sources)
     THEN /\ etf' = etf + 1
          /\ pc' = "load"
          /\ Cleared
          /\ UNCHANGED << sources, start_date, end_date, errors, reports,
                          raised >>
     ELSE /\ pc' = "done"
          /\ UNCHANGED << inputs, main_locals, etf_data, i, current_date,
                          prev_date, prev_holdings, current_holdings,
                          daily_locals, results, track_locals, changes_list,
                          weight_locals, weight_results >>

Next ==
  \/ LoadHoldings
  \/ GetDateRange
  \/ DailyStep
  \/ DailyReturn
  \/ TrackStep
  \/ TrackReturn
  \/ WeightStep
  \/ WeightReturn
  \/ AssembleChanges
  \/ ExportReport
  \/ NextFund

\* create_daily_weight_change_summary applied to the weight-change table its
\* caller holds (analyze_etf imports the function and never calls it)
Summarise ==
  /\ pc = "summary"
  /\ daily_summary' = create_daily_weight_change_summary(weight_results)
  /\ pc' = "summarised"
  /\ UNCHANGED << inputs, errors, reports, raised, daily_changes, etf_data, i,
                  current_date, prev_date, prev_holdings, current_holdings,
                  daily_locals, results, track_locals, changes_list,
                  weight_locals, weight_results >>

\* ------------------------------------------------------------------- inputs

\* tables of at most MaxRows rows drawn from the row set rows
TablesOf(rows) == UNION { [1..n -> rows] : n \in 0..MaxRows }

Days == {1, 2, 4}

Periods == {None, Some(2)}

Half == WeightOne \div 2

\* Spec: any table over three days (a gap between the last two), two holdings
\* and one cash fund, every price rising with the day, analysed over any period
GenRows(cash) ==
  { Row(to_datetime(d), t, 1, d, Half, 10) : d \in Days, t \in {"AAPL", "NEW", cash} }

Init ==
  \E cash \in cash_funds :
    \E tbl \in TablesOf(GenRows(cash)), s \in Periods, e \in Periods :
      Start(tbl, s, e)

Spec == Init /\ [][Next]_vars

\* SpecCash: any table over the three days with two holdings and the cash fund
\* XX, so that a date may hold cash alone, analysed over any period
CashRows ==
  { Row(to_datetime(d), t, 1, d, Half, 10) : d \in Days, t \in {"AAPL", "NEW", "XX"} }

InitCash ==
  \E tbl \in TablesOf(CashRows), s \in Periods, e \in Periods : Start(tbl, s, e)

SpecCash == InitCash /\ [][Next]_vars

\* SpecPnl: two days, positions and prices varying, rows repeated or missing
PnlProfiles == { << 1, 1 >>, << 2, 3 >>, << 3, 2 >> }

PnlRows ==
  { Row(to_datetime(d), t, p[1], p[2], Half, 10) :
      d \in {1, 2}, t \in {"AAPL", "NEW"}, p \in PnlProfiles }
  \cup { Row(to_datetime(d), "XX", 5, 1, Half, 10) : d \in {1, 2} }

InitPnl == \E tbl \in TablesOf(PnlRows) : Start(tbl, None, None)

SpecPnl == InitPnl /\ [][Next]_vars

\* SpecTop: MaxTop holdings present on both of two days, each with its own
\* start position and end price over a start price of 2, so with a P&L of
\* -1, 0, 1 or 2
MaxTop == 3

TopNames == << "AAPL", "NEW", "TSLA", "ROKU", "COIN", "PLTR" >>

\* (start Position, end Stock_Price)
TopProfiles == { << 1, 1 >>, << 1, 2 >>, << 1, 3 >>, << 2, 3 >> }

TopTable(p) ==
  [k \in 1..(2 * MaxTop) |->
     IF k <= MaxTop
     THEN Row(to_datetime(1), TopNames[k], p[k][1], 2, Half, 10)
     ELSE Row(to_datetime(2), TopNames[k - MaxTop], 1, p[k - MaxTop][2], Half, 10)]

InitTop == \E p \in [1..MaxTop -> TopProfiles] : Start(TopTable(p), None, None)

SpecTop == InitTop /\ [][Next]_vars

\* SpecDecomp: one holding on two days beside a cash row, absent on either day
\* or with any of these positions, prices, weights and fund values (every row
\* of a day carries the fund value of that day)
DecompPrev ==
  { << Row(to_datetime(1), "AAPL", pos, price, w, mv) >> :
      pos \in {-1, 0, 2}, price \in {0, 2}, w \in {0, Half}, mv \in {-4, 0, 4} }
  \cup { << >> }

DecompCur ==
  { << Row(to_datetime(2), "AAPL", pos, price, w, 8) >> :
      pos \in {0, 1, 3}, price \in {1, 3}, w \in {0, Half \div 2, Half} }
  \cup { << >> }

InitDecomp ==
  \E p \in DecompPrev, c \in DecompCur :
    Start(<< Row(to_datetime(1), "XX", 5, 1, Half,
                 IF p = << >> THEN 4 ELSE p[1].ETF_Market_Value) >> \o p
            \o << Row(to_datetime(2), "XX", 5, 1, Half, 8) >> \o c,
          None, None)

SpecDecomp == InitDecomp /\ [][Next]_vars

\* SpecLoad: weights given as decimals (0.5, 1.0) and as percentages (20.0,
\* 150.0), in any mixture, of two holdings and a cash fund on one day and of
\* one holding on the next
LoadWeights == {Half, WeightOne, 20 * WeightOne, 150 * WeightOne}

LoadRows ==
  { Row(to_datetime(1), t, 1, 1, w, 10) :
      t \in {"AAPL", "NEW", "XX"}, w \in LoadWeights }
  \cup { Row(to_datetime(2), "AAPL", 1, 1, w, 10) : w \in LoadWeights }

InitLoad == \E tbl \in TablesOf(LoadRows) : Start(tbl, None, None)

SpecLoad == InitLoad /\ [][Next]_vars

\* SpecBatch: main over up to MaxFunds funds, each with no file, an unreadable
\* file, a sheet lacking one column, or a complete sheet: two days of one
\* holding, one day of cash only, or no row at all
MaxFunds == 3

BatchGood ==
  << Row(to_datetime(1), "AAPL", 1, 1, Half, 10),
     Row(to_datetime(2), "AAPL", 1, 2, Half, 10) >>

BatchCashOnly == << Row(to_datetime(1), "XX", 1, 1, Half, 10) >>

BatchSources ==
  { Source("absent", {}, << >>), Source("corrupt", {}, << >>) }
  \cup { Source("sheet", all_cols \ {c}, BatchGood) : c \in all_cols }
  \cup { Sheet(BatchGood), Sheet(BatchCashOnly), Sheet(<< >>) }

InitBatch ==
  \E n \in 1..MaxFunds :
    \E funds \in [1..n -> BatchSources] : StartBatch(funds, None, None)

SpecBatch == InitBatch /\ [][Next]_vars

\* SpecSummary: a weight-change table of up to MaxRecords records, of distinct
\* tickers, all on one date or the last of them on a second date, each weight
\* having changed from 0.003 by 0.0005 or 0.002 up or down, or by 0.003 up
MaxRecords == 5

\* the resolution of the weights of SpecSummary: 1/10000
SummaryScale == 10 * WeightOne

SummaryChanges == {-20, -5, 5, 20, 30}

SummaryRecord(date, ticker, change) ==
  [Date             |-> date,
   Ticker           |-> ticker,
   Prev_Weight      |-> Rat(30, SummaryScale),
   Current_Weight   |-> Rat(30 + change, SummaryScale),
   Weight_Change    |-> Rat(change, SummaryScale),
   Prev_Position    |-> 1,
   Current_Position |-> 1,
   Position_Change  |-> 0,
   Prev_Price       |-> 1,
   Current_Price    |-> 1,
   Price_Change     |-> 0,
   Weight_Change_from_Position |-> RatInt(0),
   Weight_Change_from_Price    |-> RatInt(0),
   Residual         |-> Rat(change, SummaryScale)]

\* the table of n records, the first m of them on date 1, changed by v
SummaryTable(n, m, v) ==
  [k \in 1..n |-> SummaryRecord(IF k <= m THEN 1 ELSE 2, TopNames[k], v[k])]

InitSummary ==
  \E n \in 0..MaxRecords :
    \E m \in { x \in {n - 1, n} : x >= 0 }, v \in [1..n -> SummaryChanges] :
    /\ sources = << >>
    /\ etf = 0
    /\ start_date = None
    /\ end_date = None
    /\ errors = << >>
    /\ reports = << >>
    /\ raised = None
    /\ etf_data = << >>
    /\ pc = "summary"
    /\ i = 0
    /\ current_date = None
    /\ prev_date = None
    /\ prev_holdings = << >>
    /\ current_holdings = << >>
    /\ pnl_data = << >>
    /\ results = << >>
    /\ prev_tickers = {}
    /\ current_tickers = {}
    /\ added_tickers = {}
    /\ removed_tickers = {}
    /\ changes_list = << >>
    /\ prev_total_market_value = 0
    /\ weight_results = SummaryTable(n, m, v)
    /\ daily_changes = << >>
    /\ daily_summary = << >>

SpecSummary == InitSummary /\ [][Summarise]_vars

\* ------------------------------------------------------------------- claims
\* What the claims speak of, read off the loaded table and the outputs.

CashEquivalents == {"XX", "MVRXX", "DGCXX", "FEDXX"}

\* a timestamp lies in the analysis period (each bound a midnight, inclusive)
InPeriod(ts) ==
  /\ start_date = None \/ ts >= start_date[1] * TicksPerDay
  /\ end_date = None \/ ts <= end_date[1] * TicksPerDay

\* the loaded series, and its restriction to the period
LoadedDates == { r.Date : r \in Range(etf_data) }

ProcessedDates == { d \in LoadedDates : InPeriod(d) }

NumDates == Cardinality(ProcessedDates)

\* the k-th processed date, k in 1..NumDates
NthDate(k) ==
  CHOOSE d \in ProcessedDates :
    Cardinality({ x \in ProcessedDates : x < d }) = k - 1

\* the rows of date d, the non-cash ones among them, and their tickers
RowsOn(d) == { k \in DOMAIN etf_data : etf_data[k].Date = d }

HoldingRowsOn(d) ==
  { k \in RowsOn(d) : etf_data[k].Ticker \notin CashEquivalents }

HeldOn(d) == { etf_data[k].Ticker : k \in HoldingRowsOn(d) }

\* how many dates the turnover loop has gone through
Tracked ==
  IF pc = "track" THEN i
  ELSE IF pc \in {"weights", "assemble", "export", "next", "done"}
       THEN NumDates ELSE 0

\* the tickers the log names with this action on date d
Logged(action, d) ==
  { changes_list[k].Ticker :
      k \in { j \in DOMAIN changes_list :
                changes_list[j].Action = action /\ changes_list[j].Date = d } }

\* C1: for every pair of consecutive processed dates (prev, curr) the tickers
\* logged Added on curr and those logged Removed on curr are disjoint, and the
\* non-cash tickers of curr are (those of prev minus Removed) union Added.
C1_TurnoverPartition ==
  \A k \in 2..Tracked :
    LET added   == Logged("Added", NthDate(k))
        removed == Logged("Removed", NthDate(k))
    IN  /\ added \cap removed = {}
        /\ HeldOn(NthDate(k)) = (HeldOn(NthDate(k - 1)) \ removed) \cup added

\* a pair of dates on which one holding left and another came
C1_Witness ==
  \E k \in 2..Tracked :
    /\ Logged("Added", NthDate(k)) # {}
    /\ Logged("Removed", NthDate(k)) # {}

\* the last iteration of the daily loop compared a date with the one before it
DailyPairDone == pc = "daily" /\ i >= 2

LastRow == results[Len(results)]

\* the P&L the last iteration computed for ticker t
PnlOf(t) == (CHOOSE r \in Range(pnl_data) : r.ticker = t).pnl

Gainers == { r.ticker : r \in { x \in Range(pnl_data) : x.pnl > 0 } }

RECURSIVE SumPnlOf(_)
SumPnlOf(S) ==
  IF S = {} THEN 0
  ELSE LET t == CHOOSE x \in S : TRUE IN PnlOf(t) + SumPnlOf(S \ {t})

\* the cumulative P&L of the first n tickers of list
RECURSIVE Cumulative(_, _)
Cumulative(list, n) ==
  IF n = 0 THEN 0 ELSE PnlOf(list[n]) + Cumulative(list, n - 1)

\* C2: on every processed date with a ticker of pnl > 0 the top-50% list is a
\* list of distinct gainers whose cumulative P&L is at least half the sum of
\* all positive P&L, while the list without its last ticker stays strictly
\* below that half: the ticker that crosses the threshold is included.
C2_TopHalfMinimal ==
  (DailyPairDone /\ Gainers # {}) =>
    LET list == LastRow.Top_50pct_Profit_Tickers
        n    == Len(list)
    IN  /\ n >= 1
        /\ n = LastRow.Top_50pct_Profit_Count
        /\ Range(list) \subseteq Gainers
        /\ Cardinality(Range(list)) = n
        /\ 2 * Cumulative(list, n) >= SumPnlOf(Gainers)
        /\ 2 * Cumulative(list, n - 1) < SumPnlOf(Gainers)

\* a date whose list needs two tickers, the second one crossing the threshold
C2_Witness ==
  /\ DailyPairDone
  /\ Len(LastRow.Top_50pct_Profit_Tickers) = 2
  /\ Cardinality(Gainers) = 3

\* C3: in every record of calculate_weight_changes the position effect, the
\* price effect and the residual add up to Weight_Change, which is
\* Current_Weight - Prev_Weight; also when an effect was replaced by 0
\* because its denominator or factor was not positive.
C3_DecompositionSums ==
  \A k \in DOMAIN weight_results :
    LET rec == weight_results[k]
    IN  /\ RatAdd(RatAdd(rec.Weight_Change_from_Position,
                         rec.Weight_Change_from_Price), rec.Residual)
             = rec.Weight_Change
        /\ rec.Weight_Change = RatSub(rec.Current_Weight, rec.Prev_Weight)

\* a record whose position effect was zeroed by a non-positive fund value
\* although the position changed at a positive price
C3_Witness ==
  /\ pc = "weights"
  /\ prev_total_market_value <= 0
  /\ \E k \in DOMAIN weight_results :
       /\ weight_results[k].Position_Change # 0
       /\ weight_results[k].Prev_Price > 0
       /\ weight_results[k].Weight_Change_from_Position = RatInt(0)
       /\ weight_results[k].Residual # RatInt(0)

\* the rows of ticker t in a snapshot, by position, and the first of them
RowsOf(snapshot, t) == { k \in DOMAIN snapshot : snapshot[k].Ticker = t }

FirstOf(snapshot, t) ==
  snapshot[CHOOSE k \in RowsOf(snapshot, t) : \A j \in RowsOf(snapshot, t) : k <= j]

\* the records pnl_data holds for ticker t
RecordsOf(t) == { k \in DOMAIN pnl_data : pnl_data[k].ticker = t }

\* the non-cash tickers of the two snapshots the last iteration compared
PairHoldings ==
  (Tickers(prev_holdings) \cup Tickers(current_holdings)) \ CashEquivalents

\* C4: every ticker with a record in the result of calculate_pnl_for_period is
\* present in both snapshots; a ticker present in only one of them has no
\* record at all.
C4_RecordsOnlyForBoth ==
  DailyPairDone =>
    /\ \A k \in DOMAIN pnl_data :
         pnl_data[k].ticker \in Tickers(prev_holdings) \cap Tickers(current_holdings)
    /\ \A t \in PairHoldings :
         (RowsOf(prev_holdings, t) = {} \/ RowsOf(current_holdings, t) = {})
           => RecordsOf(t) = {}

\* a pair in which one holding has a record and another is new on curr
C4_Witness ==
  /\ DailyPairDone
  /\ pnl_data # << >>
  /\ \E t \in PairHoldings :
       RowsOf(prev_holdings, t) = {} /\ RowsOf(current_holdings, t) # {}

\* C5 as stated: a non-cash ticker has a record if and only if it has exactly
\* one row in prev and exactly one row in curr, and the pnl is then
\* prev.position x (curr.price - prev.price).
C5_ExactlyOneRow ==
  DailyPairDone =>
    \A t \in PairHoldings :
      /\ RecordsOf(t) # {}
           <=> /\ Cardinality(RowsOf(prev_holdings, t)) = 1
               /\ Cardinality(RowsOf(current_holdings, t)) = 1
      /\ RecordsOf(t) # {} =>
           \A k \in RecordsOf(t) :
             pnl_data[k].pnl
               = FirstOf(prev_holdings, t).Position
                   * (FirstOf(current_holdings, t).Stock_Price
                        - FirstOf(prev_holdings, t).Stock_Price)

\* C5 as amended: a non-cash ticker has a record (exactly one) if and only if
\* it has at least one row in prev and at least one row in curr, and the pnl is
\* then p.position x (c.price - p.price) for p, c its first rows in prev and
\* in curr: the position at the start of the period, not the one at its end.
C5_AtLeastOneRow ==
  DailyPairDone =>
    \A t \in PairHoldings :
      /\ RecordsOf(t) # {}
           <=> (RowsOf(prev_holdings, t) # {} /\ RowsOf(current_holdings, t) # {})
      /\ Cardinality(RecordsOf(t)) <= 1
      /\ \A k \in RecordsOf(t) :
           /\ pnl_data[k].pnl
                = FirstOf(prev_holdings, t).Position
                    * (FirstOf(current_holdings, t).Stock_Price
                         - FirstOf(prev_holdings, t).Stock_Price)
           /\ pnl_data[k].start_position = FirstOf(prev_holdings, t).Position

\* a record of a ticker with two different rows in prev, whose position
\* changed over the period
C5_Witness ==
  /\ DailyPairDone
  /\ \E t \in PairHoldings :
       /\ Cardinality(RowsOf(prev_holdings, t)) = 2
       /\ \E j \in RowsOf(prev_holdings, t) :
            prev_holdings[j].Position # FirstOf(prev_holdings, t).Position
       /\ RecordsOf(t) # {}
       /\ FirstOf(prev_holdings, t).Position
            # FirstOf(current_holdings, t).Position
       /\ PnlOf(t) # 0

\* the daily loop has appended the row of its i-th date
DailyRowDone == pc = "daily" /\ i >= 1

\* the sum of the squared weights of the rows K of the loaded table
RECURSIVE SquaresOver(_)
SquaresOver(K) ==
  IF K = {} THEN 0
  ELSE LET k == CHOOSE x \in K : TRUE
       IN  etf_data[k].Weight * etf_data[k].Weight + SquaresOver(K \ {k})

\* the rows of a snapshot in another order
Permuted(snapshot, order) == [k \in DOMAIN snapshot |-> snapshot[order[k]]]

\* C6: the HHI of a date is the sum of the squared weights of exactly its
\* non-cash rows, not renormalised by the weight total: non-negative, the same
\* in every order of the rows, 0 without non-cash rows, and 1 (WeightOne^2 in
\* fixed point) for a single non-cash row of weight 1.
C6_HhiSumOfSquares ==
  DailyRowDone =>
    LET held == HoldingRowsOn(NthDate(i))
    IN  /\ LastRow.HHI = SquaresOver(held)
        /\ LastRow.HHI >= 0
        /\ held = {} => LastRow.HHI = 0
        /\ (\E k \in held : held = {k} /\ etf_data[k].Weight = WeightOne)
             => LastRow.HHI = WeightOne * WeightOne
        /\ \A order \in Orders(DOMAIN current_holdings) :
             calculate_holdings_hhi(Permuted(current_holdings, order))
               = LastRow.HHI

\* a date with a weighted cash row between two holdings of different weights
\* that do not add up to 1
C6_Witness ==
  /\ DailyRowDone
  /\ Len(current_holdings) = 3
  /\ current_holdings[2].Ticker \in CashEquivalents
  /\ current_holdings[2].Weight > 0
  /\ current_holdings[1].Ticker \notin CashEquivalents
  /\ current_holdings[3].Ticker \notin CashEquivalents
  /\ current_holdings[1].Weight < current_holdings[3].Weight
  /\ current_holdings[1].Weight + current_holdings[3].Weight > WeightOne
  /\ LastRow.HHI > 0

\* the rows of a table counted with their multiplicity
BagOfRows(tbl) ==
  [r \in Range(tbl) |-> Cardinality({ k \in DOMAIN tbl : tbl[k] = r })]

\* analyze_etf holds the table load_etf_holdings returned for the fund
TableHeld == pc \notin {"load", "raised"} /\ load_error(sources[etf]) = None

\* the sheet holds a weight above 1
RawAsPercent == \E k \in DOMAIN raw : raw[k].Weight > WeightOne

\* row r with its weight multiplied by 100
TimesHundred(r) == [r EXCEPT !.Weight = @ * PercentDivisor]

\* C7: the loaded table holds the rows of the sheet, every weight divided by
\* 100 when the largest weight of the sheet exceeds 1 and every weight as it
\* was otherwise: never some rows or dates only, and never divided twice.
C7_GlobalRescale ==
  TableHeld =>
    IF RawAsPercent
    THEN BagOfRows([k \in DOMAIN etf_data |-> TimesHundred(etf_data[k])])
           = BagOfRows(raw)
    ELSE BagOfRows(etf_data) = BagOfRows(raw)

\* a sheet mixing, on different dates, a weight below 1 with a weight so large
\* that it still exceeds 1 after the division
C7_Witness ==
  /\ TableHeld
  /\ \E j, k \in DOMAIN raw :
       /\ raw[j].Date # raw[k].Date
       /\ raw[j].Weight < WeightOne
       /\ raw[k].Weight > WeightOne
  /\ \E k \in DOMAIN etf_data : etf_data[k].Weight > WeightOne

\* the rows of date d, in the order of the loaded table
SnapshotOf(d) == SelectSeq(etf_data, LAMBDA r : r.Date = d)

HoldingsOf(d) ==
  SelectSeq(etf_data, LAMBDA r : r.Date = d /\ r.Ticker \notin CashEquivalents)

\* C8: no change event, P&L record, top-50% entry or weight-change record
\* names XX, MVRXX, DGCXX or FEDXX, and the HHI and Holdings_Count of every
\* date are those of its non-cash rows alone.
C8_CashExcluded ==
  /\ \A k \in DOMAIN changes_list : changes_list[k].Ticker \notin CashEquivalents
  /\ \A k \in DOMAIN pnl_data : pnl_data[k].ticker \notin CashEquivalents
  /\ \A k \in DOMAIN weight_results :
       weight_results[k].Ticker \notin CashEquivalents
  /\ \A k \in DOMAIN results :
       /\ Range(results[k].Top_50pct_Profit_Tickers) \cap CashEquivalents = {}
       /\ results[k].HHI = SquaresOver(HoldingRowsOn(NthDate(k)))
       /\ results[k].Holdings_Count = Cardinality(HoldingRowsOn(NthDate(k)))

\* a finished run over a date that holds a weighted cash row beside a holding
\* with a gain, a change event and a weight-change record
C8_Witness ==
  /\ pc = "done"
  /\ changes_list # << >>
  /\ weight_results # << >>
  /\ \E k \in DOMAIN results :
       /\ results[k].Top_50pct_Profit_Tickers # << >>
       /\ results[k].Holdings_Count = 1
       /\ \E j \in RowsOn(NthDate(k)) :
            etf_data[j].Ticker \in CashEquivalents /\ etf_data[j].Weight > 0

\* the events of the log with this action
EventsOf(action) == { k \in DOMAIN changes_list : changes_list[k].Action = action }

\* C9: the log holds exactly one Initial event for every non-cash ticker of the
\* earliest processed date and no other Initial event; every Added or Removed
\* event is dated on a processed date after the first and names a ticker that
\* the comparison of that date with the one before it finds added or removed.
C9_InitialOnceThenChanges ==
  /\ Tracked = 0 => changes_list = << >>
  /\ Tracked >= 1 =>
       /\ \A t \in HeldOn(NthDate(1)) :
            Cardinality({ k \in EventsOf("Initial") :
                            changes_list[k].Ticker = t }) = 1
       /\ \A k \in EventsOf("Initial") :
            /\ changes_list[k].Date = NthDate(1)
            /\ changes_list[k].Ticker \in HeldOn(NthDate(1))
       /\ \A k \in DOMAIN changes_list :
            changes_list[k].Action \in {"Initial", "Added", "Removed"}
       /\ \A k \in EventsOf("Added") :
            \E n \in 2..Tracked :
              /\ changes_list[k].Date = NthDate(n)
              /\ changes_list[k].Ticker
                   \in HeldOn(NthDate(n)) \ HeldOn(NthDate(n - 1))
       /\ \A k \in EventsOf("Removed") :
            \E n \in 2..Tracked :
              /\ changes_list[k].Date = NthDate(n)
              /\ changes_list[k].Ticker
                   \in HeldOn(NthDate(n - 1)) \ HeldOn(NthDate(n))

\* a period starting after the first loaded date: an Initial event on its
\* first date, an Added and a Removed event on a later one
C9_Witness ==
  /\ Tracked >= 2
  /\ \E d \in LoadedDates : d < NthDate(1)
  /\ EventsOf("Initial") # {}
  /\ EventsOf("Added") # {}
  /\ EventsOf("Removed") # {}

\* an iteration of one of the three loops has just run on date d
StepOn(d) == pc \in {"daily", "track", "weights"} /\ current_date = Some(d)

\* the snapshot of date d, as the running engine takes it, was the previous one
UsedAsPrevious(d) ==
  /\ prev_date = Some(d)
  /\ pc = "daily" => BagOfRows(prev_holdings) = BagOfRows(SnapshotOf(d))
  /\ pc = "track" => prev_tickers = HeldOn(d)
  /\ pc = "weights" => BagOfRows(prev_holdings) = BagOfRows(HoldingsOf(d))

\* C10 as stated: on every processed date d for which the loaded series holds
\* an earlier date, the computations use the snapshot of the date immediately
\* preceding d within the loaded series.
C10_PrecedingLoadedDate ==
  \A d \in LoadedDates :
    (StepOn(d) /\ \E x \in LoadedDates : x < d) =>
      UsedAsPrevious(CHOOSE x \in LoadedDates :
                       x < d /\ \A y \in LoadedDates : y < d => y <= x)

\* C10 as amended: the loops take the processed dates (the loaded dates within
\* the period) in increasing order; on every processed date but the first the
\* computations use the snapshot of the immediately preceding processed date,
\* whatever the calendar gap, and on the first processed date they use no
\* previous snapshot, even when the loaded series holds earlier dates.
C10_PrecedingProcessedDate ==
  \A d \in LoadedDates :
    StepOn(d) =>
      /\ i \in 1..NumDates
      /\ d = NthDate(i)
      /\ IF i >= 2 THEN UsedAsPrevious(NthDate(i - 1)) ELSE prev_date = None

\* the decomposition compares two dates more than a calendar day apart
C10_Witness ==
  /\ pc = "weights"
  /\ current_date # None
  /\ prev_date # None
  /\ strftime(current_date[1]) - strftime(prev_date[1]) >= 2
  /\ prev_holdings # << >>
  /\ weight_results # << >>

\* main has ended: its loop went through the funds, or an exception left it
RunEnded == pc \in {"done", "raised"}

\* load_etf_holdings was called for fund k and raised
LoadFailed(k) ==
  /\ load_error(sources[k]) # None
  /\ k < etf \/ (k = etf /\ pc # "load")

\* the error of fund k was printed; the report of fund k was written
Reported(k) == \E j \in DOMAIN errors : errors[j].etf = k

Exported(k) == \E j \in DOMAIN reports : reports[j] = k

\* C11: a fund whose load failed has its error reported and no report, and
\* once main has ended every fund listed after it was processed: its own load
\* error was reported or its report was written.
C11_FailedLoadSkipped ==
  \A k \in DOMAIN sources :
    LoadFailed(k) =>
      /\ Reported(k)
      /\ ~Exported(k)
      /\ RunEnded => \A j \in (k + 1)..Len(sources) : Reported(j) \/ Exported(j)

\* load_etf_holdings accepts the source of fund k
Accepted(k) == load_error(sources[k]) = None

\* C12: whatever table load_etf_holdings accepted and whatever the period, no
\* exception leaves the four engines or the assembly of their results, and a
\* fund whose table was accepted has its report written once main is done.
C12_EnginesNeverRaise ==
  /\ raised # None => raised[1].at \notin {"daily", "track", "weights", "assemble"}
  /\ pc = "done" => \A k \in DOMAIN sources : Accepted(k) => Exported(k)

\* the fields the loader has to find: the six of the holdings and the fund
\* total value the decomposition divides by
RequiredFields ==
  {"Date", "Bloomberg Name", "Ticker", "Position", "Stock_Price", "Weight",
   "ETF Market Value"}

\* load_etf_holdings was called for fund k
LoadCalled(k) == k < etf \/ (k = etf /\ pc # "load")

\* C13: whenever the source of a fund is unreadable or lacks one of the
\* required fields, the call of load_etf_holdings for it ends in a reported
\* error and no table: no engine ever runs on that fund.
C13_MissingFieldFailsLoad ==
  \A k \in DOMAIN sources :
    (LoadCalled(k) /\ (sources[k].file # "sheet"
                         \/ RequiredFields \ sources[k].columns # {})) =>
      /\ Reported(k)
      /\ ~Exported(k)
      /\ k = etf => (etf_data = << >> /\ pc \in {"next", "done"})

\* the processed date a weight-change record is dated on, and the one before
DateOf(rec) == CHOOSE d \in ProcessedDates : strftime(d) = rec.Date

PreviousDateOf(rec) ==
  CHOOSE p \in ProcessedDates :
    p < DateOf(rec) /\ \A x \in ProcessedDates : x < DateOf(rec) => x <= p

\* the fund total value of date d, as its rows carry it
FundTotalOf(d) == SnapshotOf(d)[1].ETF_Market_Value

\* C14: in every record the position effect is
\* (position_change x prev_price) / prev_fund_total_value, replaced by 0 when
\* prev_fund_total_value <= 0 or prev_price <= 0, and the price effect is
\* (price_change x prev_position) / prev_fund_total_value, replaced by 0 when
\* prev_fund_total_value <= 0 or prev_position <= 0, where
\* prev_fund_total_value is the fund total value of the previous date; no
\* exception leaves the weight-change loop.
C14_EffectsOrZero ==
  /\ raised # None => raised[1].at # "weights"
  /\ \A k \in DOMAIN weight_results :
       LET rec   == weight_results[k]
           total == FundTotalOf(PreviousDateOf(rec))
       IN  /\ rec.Weight_Change_from_Position
                = IF total <= 0 \/ rec.Prev_Price <= 0
                  THEN RatInt(0)
                  ELSE Rat(rec.Position_Change * rec.Prev_Price, total)
           /\ rec.Weight_Change_from_Price
                = IF total <= 0 \/ rec.Prev_Position <= 0
                  THEN RatInt(0)
                  ELSE Rat((rec.Current_Price - rec.Prev_Price) * rec.Prev_Position,
                           total)

\* a record over a negative fund total value whose position and price both
\* changed from positive previous values, both effects replaced by 0
C14_Witness ==
  /\ pc = "weights"
  /\ prev_total_market_value < 0
  /\ \E k \in DOMAIN weight_results :
       /\ weight_results[k].Prev_Price > 0
       /\ weight_results[k].Prev_Position > 0
       /\ weight_results[k].Position_Change # 0
       /\ weight_results[k].Current_Price # weight_results[k].Prev_Price
       /\ weight_results[k].Weight_Change_from_Position = RatInt(0)
       /\ weight_results[k].Weight_Change_from_Price = RatInt(0)

\* how many dates the weight-change loop has gone through as current date
\* (the first processed date is never one)
Weighted ==
  IF pc = "weights" THEN i
  ELSE IF pc \in {"assemble", "export", "next", "done"} THEN NumDates ELSE 0

\* the weight, position and price of ticker t on date d: those of its row, 0
\* when it has none
ValuesOn(d, t) ==
  IF RowsOf(HoldingsOf(d), t) = {}
  THEN [Weight |-> 0, Position |-> 0, Stock_Price |-> 0]
  ELSE [Weight      |-> FirstOf(HoldingsOf(d), t).Weight,
        Position    |-> FirstOf(HoldingsOf(d), t).Position,
        Stock_Price |-> FirstOf(HoldingsOf(d), t).Stock_Price]

\* the records of ticker t dated on the processed date d
WeightRecordsOf(d, t) ==
  { k \in DOMAIN weight_results :
      weight_results[k].Date = strftime(d) /\ weight_results[k].Ticker = t }

\* C15: for every pair of consecutive processed dates and every ticker there
\* is at most one weight-change record, and there is one if and only if the
\* ticker is not a cash equivalent, is in one of the two snapshots and has a
\* nonzero weight on one of the two dates; the record carries weight, position
\* and price 0 for a date on which the ticker is absent.
C15_RecordIffWeighted ==
  \A n \in 2..Weighted :
    \A t \in Tickers(etf_data) :
      LET p    == ValuesOn(NthDate(n - 1), t)
          c    == ValuesOn(NthDate(n), t)
          recs == WeightRecordsOf(NthDate(n), t)
      IN  /\ Cardinality(recs) <= 1
          /\ recs # {}
               <=> /\ t \notin CashEquivalents
                   /\ t \in HeldOn(NthDate(n - 1)) \cup HeldOn(NthDate(n))
                   /\ p.Weight # 0 \/ c.Weight # 0
          /\ \A k \in recs :
               /\ weight_results[k].Prev_Weight = Rat(p.Weight, WeightOne)
               /\ weight_results[k].Prev_Position = p.Position
               /\ weight_results[k].Prev_Price = p.Stock_Price
               /\ weight_results[k].Current_Weight = Rat(c.Weight, WeightOne)
               /\ weight_results[k].Current_Position = c.Position
               /\ weight_results[k].Current_Price = c.Stock_Price

\* a record of a ticker that is absent on the previous date, next to a cash
\* row that has none
C15_Witness ==
  /\ Weighted = 2
  /\ \E t \in Tickers(etf_data) :
       /\ t \notin HeldOn(NthDate(1))
       /\ WeightRecordsOf(NthDate(2), t) # {}
       /\ \A k \in WeightRecordsOf(NthDate(2), t) :
            /\ weight_results[k].Prev_Weight = RatInt(0)
            /\ weight_results[k].Current_Position # 0
  /\ \E k \in RowsOn(NthDate(2)) : etf_data[k].Ticker \in CashEquivalents

\* the events the log holds for date d, in the order of the log
EventsOn(d) == SelectSeq(changes_list, LAMBDA e : e.Date = d)

\* the log of the date the turnover loop has just gone through, had the sets
\* of tickers been iterated in these orders
EventsIn(initial, added, removed) ==
  IF i = 1
  THEN events(current_date[1], "Initial", initial)
  ELSE events(current_date[1], "Added", added)
         \o events(current_date[1], "Removed", removed)

\* C16: a second run on the same loaded series and period, whatever order it
\* iterates its sets of tickers in, writes the events of every date in the
\* same order as this run, and the same top-50% list in the same order, also
\* when tickers have equal P&L.
C16_Deterministic ==
  /\ (pc = "track" /\ i >= 1) =>
       \A initial \in Orders(IF i = 1 THEN current_tickers ELSE {}) :
         \A added \in Orders(added_tickers), removed \in Orders(removed_tickers) :
           EventsIn(initial, added, removed) = EventsOn(current_date[1])
  /\ DailyPairDone =>
       \A order \in Orders(all_tickers(prev_holdings, current_holdings)) :
         top_50pct(calculate_pnl_for_period(prev_holdings, current_holdings, order))
           = LastRow.Top_50pct_Profit_Tickers

\* how many dates the daily loop has gone through
Dailied ==
  IF pc = "daily" THEN i
  ELSE IF pc \in {"track", "weights", "assemble", "export", "next", "done"}
       THEN NumDates ELSE 0

\* C17: the daily series holds, in strictly increasing date order, one row for
\* every distinct loaded date d with start_date <= d <= end_date (an absent
\* bound not restricting) and no other row; no event of the change log and no
\* weight-change record is dated outside that range.
C17_SeriesWithinRange ==
  /\ Len(results) = Dailied
  /\ \A k \in DOMAIN results : results[k].Date = strftime(NthDate(k))
  /\ \A k \in DOMAIN results :
       /\ start_date # None => results[k].Date >= start_date[1]
       /\ end_date # None => results[k].Date <= end_date[1]
  /\ \A j, k \in DOMAIN results : j < k => results[j].Date < results[k].Date
  /\ \A k \in DOMAIN changes_list : changes_list[k].Date \in ProcessedDates
  /\ \A k \in DOMAIN weight_results :
       \E d \in ProcessedDates : weight_results[k].Date = strftime(d)

\* a finished run over a period that ends on a loaded date: that date has the
\* last row of the series, a later loaded date has none
C17_Witness ==
  /\ pc = "done"
  /\ end_date # None
  /\ Len(results) = 2
  /\ results[2].Date = end_date[1]
  /\ \E d \in LoadedDates : strftime(d) > end_date[1]
  /\ weight_results # << >>

\* the non-cash tickers held on the n-th processed date and on the one before
\* it whose position of the earlier date gained: pnl > 0
GainersOn(n) ==
  IF n < 2 THEN {}
  ELSE { t \in HeldOn(NthDate(n - 1)) \cap HeldOn(NthDate(n)) :
           FirstOf(HoldingsOf(NthDate(n - 1)), t).Position
             * (FirstOf(HoldingsOf(NthDate(n)), t).Stock_Price
                  - FirstOf(HoldingsOf(NthDate(n - 1)), t).Stock_Price) > 0 }

\* C18: in the daily series the top-50% count is 0 and the list empty on the
\* first processed date and on every date without a ticker of pnl > 0; on
\* every other date the count is the length of the list and at least 1; the
\* daily loop raises nothing.
C18_EmptyWithoutGainers ==
  /\ raised # None => raised[1].at # "daily"
  /\ \A n \in DOMAIN results :
       IF n = 1 \/ GainersOn(n) = {}
       THEN /\ results[n].Top_50pct_Profit_Count = 0
            /\ results[n].Top_50pct_Profit_Tickers = << >>
       ELSE /\ results[n].Top_50pct_Profit_Count
                 = Len(results[n].Top_50pct_Profit_Tickers)
            /\ results[n].Top_50pct_Profit_Count >= 1

\* a second date on which one holding is matched at a loss and another is new:
\* no gain, an empty list
C18_Witness ==
  /\ DailyPairDone
  /\ \E k \in DOMAIN pnl_data : pnl_data[k].pnl < 0
  /\ Cardinality(PairHoldings) = 2
  /\ LastRow.Top_50pct_Profit_Count = 0
  /\ LastRow.Top_50pct_Profit_Tickers = << >>

\* C19: in every weight-change record each reported delta is the reported
\* current value minus the reported previous value (the previous values of a
\* ticker absent on the previous date being 0), and whenever the price effect
\* is not replaced by 0 it is Price_Change x Prev_Position over the fund total
\* value of the previous date, for the reported Price_Change.
C19_DeltasOfReportedValues ==
  \A k \in DOMAIN weight_results :
    LET rec   == weight_results[k]
        total == FundTotalOf(PreviousDateOf(rec))
    IN  /\ rec.Weight_Change = RatSub(rec.Current_Weight, rec.Prev_Weight)
        /\ rec.Position_Change = rec.Current_Position - rec.Prev_Position
        /\ rec.Price_Change = rec.Current_Price - rec.Prev_Price
        /\ (total > 0 /\ rec.Prev_Position > 0) =>
             rec.Weight_Change_from_Price
               = Rat(rec.Price_Change * rec.Prev_Position, total)

\* the summary has been computed for the weight-change table
Summarised == pc = "summarised"

\* the records of the table dated d, by position
RecordsOn(d) == { k \in DOMAIN weight_results : weight_results[k].Date = d }

ChangeOf(k) == weight_results[k].Weight_Change

\* more than `least` as a fraction of 1000, and less than its negative
Above(k, least) == ChangeOf(k).n * 1000 > least * ChangeOf(k).d

Below(k, least) == ChangeOf(k).n * 1000 < (0 - least) * ChangeOf(k).d

\* record j comes before record k in a list of largest changes
LargerFirst(j, k) ==
  \/ ChangeOf(j).n * ChangeOf(k).d > ChangeOf(k).n * ChangeOf(j).d
  \/ (ChangeOf(j) = ChangeOf(k) /\ j < k)

\* the record a top entry of date d names
RecordOf(d, entry) ==
  CHOOSE k \in RecordsOn(d) : weight_results[k].Ticker = entry.Ticker

\* list holds the first three of the competing records, each before the next
\* in the order `before` and all of them before every other competing record
TopThree(d, list, competing, before(_, _)) ==
  /\ Len(list) = IF Cardinality(competing) < 3 THEN Cardinality(competing) ELSE 3
  /\ \A n \in DOMAIN list :
       /\ \E k \in competing : weight_results[k].Ticker = list[n].Ticker
       /\ RecordOf(d, list[n]) \in competing
       /\ list[n].Weight_Change = ChangeOf(RecordOf(d, list[n]))
       /\ \A m \in DOMAIN list :
            m < n => before(RecordOf(d, list[m]), RecordOf(d, list[n]))
       /\ \A k \in competing :
            (\A m \in DOMAIN list : RecordOf(d, list[m]) # k)
              => before(RecordOf(d, list[n]), k)

SmallerFirst(j, k) ==
  \/ ChangeOf(j).n * ChangeOf(k).d < ChangeOf(k).n * ChangeOf(j).d
  \/ (ChangeOf(j) = ChangeOf(k) /\ j < k)

\* C20 as stated: for each date the top increases are the 3 largest of all
\* positive weight changes of the date (all when fewer than 3), the top
\* decreases the 3 largest of all negative ones, equal changes in encounter
\* order: every positive or negative change competes, however small.
C20_TopThreeOfAll ==
  Summarised =>
    \A n \in DOMAIN daily_summary :
      LET d == daily_summary[n].Date
      IN  /\ TopThree(d, daily_summary[n].Top_Weight_Increases,
                      { k \in RecordsOn(d) : Above(k, 0) }, LargerFirst)
          /\ TopThree(d, daily_summary[n].Top_Weight_Decreases,
                      { k \in RecordsOn(d) : Below(k, 0) }, SmallerFirst)

\* C20 as amended: for each date the top increases are the 3 largest of the
\* weight changes above 0.001 (all when fewer than 3), the top decreases the
\* 3 largest of the weight changes below -0.001, equal changes in encounter
\* order; a change of at most 0.001 in size competes in neither list.
C20_TopThreeOfSignificant ==
  Summarised =>
    /\ \A d \in { weight_results[k].Date : k \in DOMAIN weight_results } :
         \E n \in DOMAIN daily_summary : daily_summary[n].Date = d
    /\ \A n \in DOMAIN daily_summary :
         LET d == daily_summary[n].Date
         IN  /\ TopThree(d, daily_summary[n].Top_Weight_Increases,
                         { k \in RecordsOn(d) : Above(k, 1) }, LargerFirst)
             /\ TopThree(d, daily_summary[n].Top_Weight_Decreases,
                         { k \in RecordsOn(d) : Below(k, 1) }, SmallerFirst)

\* a date with five increases: one of 0.0005, which is in no list, and four
\* above 0.001, of which the largest is listed before two equal ones and the
\* last of the equal ones is left out
C20_Witness ==
  /\ Summarised
  /\ \E n \in DOMAIN daily_summary :
       LET d    == daily_summary[n].Date
           list == daily_summary[n].Top_Weight_Increases
       IN  /\ Cardinality({ k \in RecordsOn(d) : Above(k, 1) }) = 4
           /\ \E k \in RecordsOn(d) : Above(k, 0) /\ ~Above(k, 1)
           /\ Len(list) = 3
           /\ list[2].Weight_Change = list[3].Weight_Change
           /\ list[1].Weight_Change # list[2].Weight_Change
           /\ \E k \in RecordsOn(d) :
                /\ ChangeOf(k) = list[3].Weight_Change
                /\ \A m \in DOMAIN list : list[m].Ticker # weight_results[k].Ticker

\* analyze_etf has built the rows of Portfolio_Changes of the fund it is at
Assembled == pc = "export" \/ (pc \in {"next", "done"} /\ Exported(etf))

\* the rows of Portfolio_Changes dated on the calendar day of timestamp d
ChangeRowsOn(d) ==
  { k \in DOMAIN daily_changes : daily_changes[k].Date = strftime(d) }

\* the list names exactly the tickers of S, each of them once
ListsExactly(list, S) == Range(list) = S /\ Len(list) = Cardinality(S)

\* C21: the change log is chronological: event dates are non-decreasing along
\* the log and every Initial event precedes every Added or Removed event; the
\* rows of Portfolio_Changes that analyze_etf derives from it hold, for each
\* date, exactly the tickers the log has Added and Removed on that date, and a
\* date has a row only when the log has an Added or Removed event on it.
C21_ChronologicalLog ==
  /\ \A j, k \in DOMAIN changes_list :
       j < k => changes_list[j].Date <= changes_list[k].Date
  /\ \A j, k \in DOMAIN changes_list :
       (changes_list[j].Action = "Initial"
          /\ changes_list[k].Action \in {"Added", "Removed"}) => j < k
  /\ Assembled =>
       /\ \A k \in DOMAIN daily_changes :
            \E d \in ProcessedDates : k \in ChangeRowsOn(d)
       /\ \A d \in ProcessedDates :
            IF Logged("Added", d) \cup Logged("Removed", d) = {}
            THEN ChangeRowsOn(d) = {}
            ELSE /\ Cardinality(ChangeRowsOn(d)) = 1
                 /\ \A k \in ChangeRowsOn(d) :
                      /\ ListsExactly(daily_changes[k].Stocks_Added,
                                      Logged("Added", d))
                      /\ ListsExactly(daily_changes[k].Stocks_Removed,
                                      Logged("Removed", d))
                      /\ daily_changes[k].Stocks_Added_Count
                           = Cardinality(Logged("Added", d))
                      /\ daily_changes[k].Stocks_Removed_Count
                           = Cardinality(Logged("Removed", d))

\* a log with Initial events on the first date, a removal on the second and an
\* addition on the third: two rows of Portfolio_Changes, none for the first date
C21_Witness ==
  /\ Assembled
  /\ Len(daily_changes) = 2
  /\ \E d \in ProcessedDates :
       /\ Logged("Initial", d) # {}
       /\ ChangeRowsOn(d) = {}
  /\ \E d, x \in ProcessedDates :
       /\ d < x
       /\ Logged("Removed", d) # {}
       /\ Logged("Added", x) # {}

\* date d has rows in the loaded table and none of them is a holding
CashOnly(d) == RowsOn(d) # {} /\ HoldingRowsOn(d) = {}

\* the weight-change records dated on the calendar day of timestamp d
RecordsDated(d) ==
  { k \in DOMAIN weight_results : weight_results[k].Date = strftime(d) }

\* C22: the engines take their dates from all rows of the period, cash rows
\* included, so a date holding only cash tickers is a processed date without
\* holdings: its row of the daily series has HHI 0 and Holdings_Count 0, every
\* holding of the date before it is logged Removed on it, every holding of the
\* date after it is logged Added on that date, and the weight-change step of
\* that following date divides by a previous fund total of 0, both effects
\* being 0; each of the three loops pairs its k-th date with its (k-1)-th.
C22_CashOnlyDateProcessed ==
  /\ \A k \in 1..Dailied :
       /\ results[k].Date = strftime(NthDate(k))
       /\ CashOnly(NthDate(k)) =>
            results[k].HHI = 0 /\ results[k].Holdings_Count = 0
  /\ \A k \in 2..Tracked :
       /\ CashOnly(NthDate(k)) =>
            /\ Logged("Removed", NthDate(k)) = HeldOn(NthDate(k - 1))
            /\ Logged("Added", NthDate(k)) = {}
       /\ CashOnly(NthDate(k - 1)) =>
            /\ Logged("Added", NthDate(k)) = HeldOn(NthDate(k))
            /\ Logged("Removed", NthDate(k)) = {}
  /\ \A k \in 2..Weighted :
       CashOnly(NthDate(k - 1)) =>
         \A j \in RecordsDated(NthDate(k)) :
           /\ weight_results[j].Weight_Change_from_Position = RatInt(0)
           /\ weight_results[j].Weight_Change_from_Price = RatInt(0)
  /\ (pc = "weights" /\ prev_date # None /\ CashOnly(prev_date[1])) =>
       prev_total_market_value = 0 /\ prev_holdings = << >>
  /\ \A d \in LoadedDates :
       StepOn(d) =>
         /\ i \in 1..NumDates
         /\ d = NthDate(i)
         /\ prev_date = IF i >= 2 THEN Some(NthDate(i - 1)) ELSE None

\* three dates, the middle one holding only a weighted cash row: the weight
\* loop has just compared the third date with it
C22_Witness ==
  /\ pc = "weights"
  /\ NumDates = 3
  /\ i = 3
  /\ CashOnly(NthDate(2))
  /\ \E k \in RowsOn(NthDate(2)) : etf_data[k].Weight > 0
  /\ results[2].HHI = 0
  /\ results[2].Holdings_Count = 0
  /\ Logged("Removed", NthDate(2)) # {}
  /\ Logged("Added", NthDate(3)) # {}
  /\ prev_date = Some(NthDate(2))
  /\ prev_total_market_value = 0
  /\ RecordsDated(NthDate(3)) # {}

====
